---- MODULE Spec2Model ----
(***************************************************************************)
(* A model of pycp.py: the command-line run (main), the tree walker        *)
(* (copy_tree), the skip policy (should_skip_copy), the per-file copier    *)
(* (copy_file) with its temp file, fast path, sparse writer and rename,    *)
(* the temp-file registry (_tempfiles) and the signal handler.             *)
(*                                                                         *)
(* The filesystem is a function from the paths that exist to entries.  A   *)
(* path is a sequence of names, <<>> being "/".  A byte is 0 (a zero       *)
(* byte) or a non-zero value.  Symlink targets are absolute paths.         *)
(* Extended attributes, ownership and permission bits are not modelled:    *)
(* preserve_metadata is modelled by the timestamp copy of shutil.copystat. *)
(***************************************************************************)
EXTENDS Integers, Sequences, FiniteSets, TLC

(***************************************************************************)
(* Bounds of the model.                                                    *)
(***************************************************************************)
MaxLen == 3
\* longest file content
MaxBuf == 2
\* largest --bufsize / --sparse-threshold tried
MaxIoBuf == 2
\* largest buffer of the io layer under fout (io.BufferedRandom)
MaxLinks == 2
\* symlinks followed in one path resolution before ELOOP
MaxDepth == 5
\* components in the longest path the kernel takes (PATH_MAX): ENAMETOOLONG beyond
MaxFaults == 1
\* injected I/O errors per run
MaxMtime == 2
\* largest initial modification time

Now == MaxMtime + 1
\* the time stamped on whatever the run writes

Max(a, b) == IF a >= b THEN a ELSE b
Min(a, b) == IF a <= b THEN a ELSE b

(***************************************************************************)
(* Paths                                                                   *)
(***************************************************************************)
Root == <<>>
Bad == <<"?">>
\* the result of resolving a path that cannot be resolved (ENOENT, ENOTDIR, ELOOP)
Parent(p) == SubSeq(p, 1, Len(p) - 1)
Basename(p) == p[Len(p)]
Join(p, n) == Append(p, n)
TmpNames == <<".pycp_tmp1", ".pycp_tmp2">>
\* the names mkstemp(prefix=".pycp_tmp") draws from
AllNames == <<"a", "b", "d", "f", "g", "h", "l", "s", "sub", "x", "y">> \o TmpNames
\* the order in which scandir lists a directory

(***************************************************************************)
(* Entries                                                                 *)
(***************************************************************************)
File(data, mtime) == [kind |-> "file", data |-> data, mtime |-> mtime, target |-> <<>>]
Dir(mtime) == [kind |-> "dir", data |-> <<>>, mtime |-> mtime, target |-> <<>>]
Link(target, mtime) == [kind |-> "link", data |-> <<>>, mtime |-> mtime, target |-> target]
Absent == [kind |-> "none", data |-> <<>>, mtime |-> 0, target |-> <<>>]

Put(f, p, e) == [q \in DOMAIN f \cup {p} |-> IF q = p THEN e ELSE f[q]]
Del(f, p) == [q \in DOMAIN f \ {p} |-> f[q]]

(***************************************************************************)
(* Path resolution, as the kernel does it: every symlink on the way is     *)
(* followed, the last component only when follow is set.  The result is    *)
(* the real path (which exists or is a missing leaf of an existing         *)
(* directory) or Bad.                                                      *)
(***************************************************************************)
RECURSIVE ResolveFrom(_, _, _, _, _)
ResolveFrom(f, cur, rest, follow, fuel) ==
  IF rest = <<>> THEN cur
  ELSE LET nxt == Append(cur, Head(rest))
           last == Len(rest) = 1
       IN IF nxt \notin DOMAIN f THEN (IF last THEN nxt ELSE Bad)
          ELSE IF f[nxt].kind = "link" /\ (~last \/ follow)
               THEN IF fuel = 0 THEN Bad
                    ELSE ResolveFrom(f, Root, f[nxt].target \o Tail(rest), follow, fuel - 1)
          ELSE IF f[nxt].kind = "dir" THEN ResolveFrom(f, nxt, Tail(rest), follow, fuel)
          ELSE IF last THEN nxt ELSE Bad

Resolve(f, p, follow) ==
  IF Len(p) > MaxDepth THEN Bad ELSE ResolveFrom(f, Root, p, follow, MaxLinks)

Stat(f, p) == LET r == Resolve(f, p, TRUE) IN IF r \in DOMAIN f THEN f[r] ELSE Absent
\* os.stat: Absent stands for the OSError
LStat(f, p) == LET r == Resolve(f, p, FALSE) IN IF r \in DOMAIN f THEN f[r] ELSE Absent
\* os.lstat

Exists(f, p) == Stat(f, p).kind # "none"
\* os.path.exists, Path.exists
IsFile(f, p) == Stat(f, p).kind = "file"
\* os.path.isfile
IsDir(f, p) == Stat(f, p).kind = "dir"
\* os.path.isdir
IsLink(f, p) == LStat(f, p).kind = "link"
\* os.path.islink, Path.is_symlink
ReadLink(f, p) == LStat(f, p).target
\* os.readlink

(***************************************************************************)
(* System calls that change the filesystem.  Each gives [ok, fs]: ok is    *)
(* FALSE when the call raises, and then fs is unchanged.                   *)
(***************************************************************************)
Ok(f) == [ok |-> TRUE, fs |-> f]
Err(f) == [ok |-> FALSE, fs |-> f]

Unlink(f, p) ==
  \* os.remove, os.unlink, Path.unlink: removes the entry itself, never a directory
  LET r == Resolve(f, p, FALSE)
  IN IF r \in DOMAIN f /\ f[r].kind # "dir" THEN Ok(Del(f, r)) ELSE Err(f)

Symlink(f, target, p) ==
  \* os.symlink: EEXIST when anything, a dangling link included, is at p
  LET r == Resolve(f, p, FALSE)
  IN IF r # Bad /\ r \notin DOMAIN f THEN Ok(Put(f, r, Link(target, Now))) ELSE Err(f)

RECURSIVE MakeDirs(_, _)
MakeDirs(f, p) ==
  \* os.makedirs(p, exist_ok=True), Path.mkdir(parents=True, exist_ok=True)
  IF IsDir(f, p) THEN Ok(f)
  ELSE IF p = Root \/ LStat(f, p).kind # "none" THEN Err(f)
  ELSE LET up == MakeDirs(f, Parent(p))
       IN IF ~up.ok THEN Err(f)
          ELSE LET r == Resolve(up.fs, p, FALSE)
               IN IF r = Bad \/ r \in DOMAIN up.fs THEN Err(f)
                  ELSE Ok(Put(up.fs, r, Dir(Now)))

Replace(f, a, b) ==
  \* os.replace, os.rename of a file: the entry at b is replaced (a symlink
  \* at b itself, not its target); a directory at b is EISDIR
  LET ra == Resolve(f, a, FALSE)
      rb == Resolve(f, b, FALSE)
  IN IF ra \notin DOMAIN f \/ rb = Bad THEN Err(f)
     ELSE IF rb \in DOMAIN f /\ f[rb].kind = "dir" THEN Err(f)
     ELSE IF ra = rb THEN Ok(f)
     ELSE Ok(Del(Put(f, rb, f[ra]), ra))

OpenWrite(f, p) ==
  \* open(p, 'wb'): creates or truncates, through symlinks
  LET r == Resolve(f, p, TRUE)
  IN IF r = Bad THEN Err(f)
     ELSE IF r \in DOMAIN f /\ f[r].kind # "file" THEN Err(f)
     ELSE Ok(Put(f, r, File(<<>>, Now)))

RawWrite(data, pos, bytes) ==
  \* write(2) of bytes at offset pos: the gap up to pos, if any, reads as zeros
  IF bytes = <<>> THEN data
  ELSE [i \in 1..Max(Len(data), pos + Len(bytes)) |->
          IF i > pos /\ i <= pos + Len(bytes) THEN bytes[i - pos]
          ELSE IF i <= Len(data) THEN data[i] ELSE 0]

WriteAt(f, r, pos, bytes) ==
  IF bytes = <<>> THEN f
  ELSE [f EXCEPT ![r].data = RawWrite(@, pos, bytes), ![r].mtime = Now]

ReadChunk(f, r, off, n) ==
  \* fin.read(n) at offset off of the open file r
  IF r \notin DOMAIN f THEN <<>>
  ELSE SubSeq(f[r].data, off + 1, Min(off + n, Len(f[r].data)))

(***************************************************************************)
(* The write side of an open(..., 'r+b') file: Python's io.BufferedRandom  *)
(* keeps written bytes in a buffer of plat.iobuf bytes and hands them to   *)
(* the descriptor when the buffer cannot take the next write, or on close; *)
(* a flush writes at the descriptor's current offset.  os.lseek on         *)
(* fout.fileno() moves that offset at once, behind the buffer's back.      *)
(* A stream is [data, wbuf, rpos]: the file's bytes, the bytes buffered    *)
(* and not yet written, the descriptor's offset.                           *)
(***************************************************************************)
Flush(st) ==
  [data |-> RawWrite(st.data, st.rpos, st.wbuf), wbuf |-> <<>>, rpos |-> st.rpos + Len(st.wbuf)]

BufferedWrite(st, chunk, iobuf) ==
  \* fout.write(chunk)
  IF Len(chunk) <= iobuf - Len(st.wbuf) THEN [st EXCEPT !.wbuf = @ \o chunk]
  ELSE LET fl == Flush(st)
       IN IF Len(chunk) > iobuf
          THEN [data |-> RawWrite(fl.data, fl.rpos, chunk), wbuf |-> <<>>,
                rpos |-> fl.rpos + Len(chunk)]
          ELSE [fl EXCEPT !.wbuf = chunk]

SeekCur(st, n) == [st EXCEPT !.rpos = @ + n]
\* os.lseek(fout.fileno(), n, os.SEEK_CUR)

is_all_zero(b) == \A i \in 1..Len(b) : b[i] = 0

IsHole(chunk, sparse_threshold) == Len(chunk) >= sparse_threshold /\ is_all_zero(chunk)
\* the test of write_buffered_with_sparse for turning a chunk into a hole

SparseStep(st, chunk, sparse_threshold, iobuf, seek_ok) ==
  \* one turn of the loop of write_buffered_with_sparse on a non-empty chunk
  IF IsHole(chunk, sparse_threshold)
  THEN IF seek_ok THEN SeekCur(st, Len(chunk)) ELSE BufferedWrite(st, chunk, iobuf)
  ELSE BufferedWrite(st, chunk, iobuf)

(***************************************************************************)
(* should_skip_copy                                                        *)
(***************************************************************************)
should_skip_copy(f, src, dst, no_clobber, update_only) ==
  IF ~Exists(f, dst) THEN FALSE
  ELSE IF no_clobber THEN TRUE
  ELSE IF update_only
       THEN IF Exists(f, src) THEN Stat(f, src).mtime <= Stat(f, dst).mtime ELSE FALSE
  ELSE FALSE

copystat(f, src, dst, follow_symlinks) ==
  \* shutil.copystat as preserve_metadata calls it, every error swallowed:
  \* the timestamps of src are put on dst; the links themselves are used
  \* only when follow_symlinks is off and both are symlinks
  LET follow == follow_symlinks \/ ~(IsLink(f, src) /\ IsLink(f, dst))
      rs == Resolve(f, src, follow)
      rd == Resolve(f, dst, follow)
  IN IF rs \in DOMAIN f /\ rd \in DOMAIN f THEN [f EXCEPT ![rd].mtime = f[rs].mtime] ELSE f

preserve_metadata(f, src, dst, follow_symlinks) == copystat(f, src, dst, follow_symlinks)

(***************************************************************************)
(* The state                                                               *)
(***************************************************************************)
VARIABLES
  fs,        \* the filesystem
  tempfiles, \* _tempfiles
  args,      \* the parsed command line
  plat,      \* the platform: [sendfile: os has sendfile, iobuf: buffer size of open()]
  pc,        \* where the run is
  si,        \* main: index of the source being copied
  ct,        \* the frame of copy_tree
  cf,        \* the frame of copy_file
  out,       \* the lines printed, in order
  status,    \* the exit status, -1 while running
  faults,    \* I/O errors injected so far
  fs0        \* the filesystem when the run began

vars == <<fs, tempfiles, args, plat, pc, si, ct, cf, out, status, faults, fs0>>

NoTree ==
  [src_root |-> <<>>, dst_root |-> <<>>, stack |-> <<>>, root |-> <<>>, dst_dir |-> <<>>,
   dirs |-> <<>>, files |-> <<>>, todo |-> <<>>, res |-> "", exc |-> "", pre |-> <<>>]
NoFile ==
  [src |-> <<>>, dst |-> <<>>, caller |-> "", tmp |-> <<>>, rsrc |-> <<>>, rout |-> <<>>,
   off |-> 0, wbuf |-> <<>>, rpos |-> 0, how |-> "", res |-> "", exc |-> "", pre |-> <<>>]

Line(stream, kind, src, dst, exc) ==
  [stream |-> stream, kind |-> kind, src |-> src, dst |-> dst, exc |-> exc]

Running == status = -1
CanFault == faults < MaxFaults

(***************************************************************************)
(* copy_file.  cf.src and cf.dst are the arguments, cf.caller the call     *)
(* site, cf.pre the filesystem at the call.  A raise inside copy_file      *)
(* leaves at "cf_ret" with cf.res = "raised".                              *)
(***************************************************************************)
Raised(exc) == [cf EXCEPT !.res = "raised", !.exc = exc]

FreeTmp(f, dir) ==
  \* a name mkstemp can take in dir: the first of TmpNames not in use there
  LET free == SelectSeq(TmpNames, LAMBDA n : LStat(f, Join(dir, n)).kind = "none")
  IN IF free = <<>> THEN <<>> ELSE <<Head(free)>>

CfEnter ==
  \* lines 133-154: the existence check, the symlink branch, the parent mkdir
  /\ pc = "cf_enter" /\ Running
  /\ UNCHANGED <<tempfiles, args, plat, si, ct, out, status, faults, fs0>>
  /\ IF ~Exists(fs, cf.src)
     THEN /\ cf' = Raised("FileNotFoundError")
          /\ pc' = "cf_ret"
          /\ fs' = fs
     ELSE IF IsLink(fs, cf.src) /\ ~args.dereference
     THEN LET target == ReadLink(fs, cf.src)
              un == IF Exists(fs, cf.dst) THEN Unlink(fs, cf.dst) ELSE Ok(fs)
              sy == Symlink(un.fs, target, cf.dst)
          IN /\ pc' = "cf_ret"
             /\ IF ~un.ok
                THEN fs' = fs /\ cf' = Raised("IsADirectoryError")
                ELSE IF ~sy.ok
                THEN fs' = un.fs /\ cf' = Raised("FileExistsError")
                ELSE /\ fs' = IF args.preserve
                              THEN preserve_metadata(sy.fs, cf.src, cf.dst, FALSE)
                              ELSE sy.fs
                     /\ cf' = [cf EXCEPT !.res = "ok", !.how = "symlink"]
     ELSE LET mk == MakeDirs(fs, Parent(cf.dst))
          IN IF ~mk.ok
             THEN fs' = fs /\ cf' = Raised("FileExistsError") /\ pc' = "cf_ret"
             ELSE /\ fs' = mk.fs
                  /\ cf' = cf
                  /\ pc' = IF ~args.no_atomic THEN "cf_mkstemp" ELSE "cf_open"

CfMkstemp ==
  \* atomic_tempfile_in_dir, line 98-99: tempfile.mkstemp in the destination's directory
  /\ pc = "cf_mkstemp" /\ Running
  /\ FreeTmp(fs, Parent(cf.dst)) # <<>>
  /\ LET tmp == Join(Parent(cf.dst), Head(FreeTmp(fs, Parent(cf.dst))))
         r == Resolve(fs, tmp, FALSE)
     IN IF r = Bad
        THEN \* the temp file's path cannot be resolved (ENAMETOOLONG, ELOOP)
             fs' = fs /\ cf' = Raised("OSError") /\ pc' = "cf_ret"
        ELSE /\ fs' = Put(fs, r, File(<<>>, Now))
             /\ cf' = [cf EXCEPT !.tmp = tmp]
             /\ pc' = "cf_register"
  /\ UNCHANGED <<tempfiles, args, plat, si, ct, out, status, faults, fs0>>

CfMkstempFail ==
  \* mkstemp raises (no permission, no space): nothing was created
  /\ pc = "cf_mkstemp" /\ Running /\ CanFault
  /\ faults' = faults + 1
  /\ cf' = Raised("OSError")
  /\ pc' = "cf_ret"
  /\ UNCHANGED <<fs, tempfiles, args, plat, si, ct, out, status, fs0>>

CfRegister ==
  \* line 100: _tempfiles.add(tmp); lines 160-161 truncate the empty temp file
  /\ pc = "cf_register" /\ Running
  /\ tempfiles' = tempfiles \cup {cf.tmp}
  /\ pc' = IF plat.sendfile THEN "cf_sendfile_open" ELSE "cf_sparse_open"
  /\ UNCHANGED <<fs, args, plat, si, ct, cf, out, status, faults, fs0>>

CfSendfileOpen ==
  \* lines 167-168: open(src, 'rb'), open(tmp, 'r+b'); an error is caught at 177
  /\ pc = "cf_sendfile_open" /\ Running
  /\ IF IsFile(fs, cf.src) /\ IsFile(fs, cf.tmp)
     THEN /\ cf' = [cf EXCEPT !.rsrc = Resolve(fs, cf.src, TRUE),
                              !.rout = Resolve(fs, cf.tmp, TRUE), !.off = 0]
          /\ pc' = "cf_sendfile"
     ELSE /\ cf' = cf
          /\ pc' = "cf_sparse_open"
  /\ UNCHANGED <<fs, tempfiles, args, plat, si, ct, out, status, faults, fs0>>

CfSendfile ==
  \* lines 171-176: one os.sendfile call; 0 bytes sent ends the loop
  /\ pc = "cf_sendfile" /\ Running
  /\ LET chunk == ReadChunk(fs, cf.rsrc, cf.off, args.bufsize)
     IN IF chunk = <<>>
        THEN /\ fs' = fs
             /\ cf' = [cf EXCEPT !.how = "sendfile"]
             /\ pc' = "cf_replace"
        ELSE /\ fs' = WriteAt(fs, cf.rout, cf.off, chunk)
             /\ cf' = [cf EXCEPT !.off = @ + Len(chunk)]
             /\ pc' = "cf_sendfile"
  /\ UNCHANGED <<tempfiles, args, plat, si, ct, out, status, faults, fs0>>

CfSendfileFail ==
  \* os.sendfile raises: line 177-178 catches it and the sparse writer takes over
  /\ pc = "cf_sendfile" /\ Running /\ CanFault
  /\ faults' = faults + 1
  /\ pc' = "cf_sparse_open"
  /\ UNCHANGED <<fs, tempfiles, args, plat, si, ct, cf, out, status, fs0>>

CfSparseOpen ==
  \* lines 180-183 and 108: open(src, 'rb'), open(tmp, 'r+b') in the sparse writer
  /\ pc = "cf_sparse_open" /\ Running
  /\ IF IsFile(fs, cf.src) /\ IsFile(fs, cf.tmp)
     THEN /\ cf' = [cf EXCEPT !.rsrc = Resolve(fs, cf.src, TRUE),
                              !.rout = Resolve(fs, cf.tmp, TRUE),
                              !.off = 0, !.wbuf = <<>>, !.rpos = 0]
          /\ pc' = "cf_sparse"
     ELSE /\ cf' = [cf EXCEPT !.exc = IF IsDir(fs, cf.src) THEN "IsADirectoryError"
                                       ELSE "OSError"]
          /\ pc' = "cf_cleanup"
  /\ UNCHANGED <<fs, tempfiles, args, plat, si, ct, out, status, faults, fs0>>

Stream == [data |-> fs[cf.rout].data, wbuf |-> cf.wbuf, rpos |-> cf.rpos]

PutStream(st) ==
  /\ fs' = IF st.data = fs[cf.rout].data THEN fs
           ELSE [fs EXCEPT ![cf.rout].data = st.data, ![cf.rout].mtime = Now]
  /\ cf' = [cf EXCEPT !.wbuf = st.wbuf, !.rpos = st.rpos,
                      !.off = @ + Len(ReadChunk(fs, cf.rsrc, cf.off, args.bufsize)),
                      !.how = "sparse"]

SparseLine(chunk) ==
  \* line 122-123
  IF args.verbose /\ IsHole(chunk, args.sparse_threshold)
  THEN <<Line("stdout", "sparse", cf.src, cf.tmp, "")>> ELSE <<>>

CfSparse ==
  \* lines 109-125: one turn of the loop; the empty read ends it and the
  \* with-block closes fout, which flushes the buffer
  /\ pc = "cf_sparse" /\ Running
  /\ LET chunk == ReadChunk(fs, cf.rsrc, cf.off, args.bufsize)
     IN IF chunk = <<>>
        THEN /\ PutStream(Flush(Stream))
             /\ pc' = "cf_replace"
             /\ out' = out
        ELSE /\ PutStream(SparseStep(Stream, chunk, args.sparse_threshold, plat.iobuf, TRUE))
             /\ pc' = "cf_sparse"
             /\ out' = out \o SparseLine(chunk)
  /\ UNCHANGED <<tempfiles, args, plat, si, ct, status, faults, fs0>>

CfSparseSeekFail ==
  \* lines 119-121: os.lseek raises OSError and the zeros are written instead
  /\ pc = "cf_sparse" /\ Running /\ CanFault
  /\ LET chunk == ReadChunk(fs, cf.rsrc, cf.off, args.bufsize)
     IN /\ IsHole(chunk, args.sparse_threshold)
        /\ PutStream(SparseStep(Stream, chunk, args.sparse_threshold, plat.iobuf, FALSE))
        /\ out' = out \o SparseLine(chunk)
  /\ faults' = faults + 1
  /\ pc' = "cf_sparse"
  /\ UNCHANGED <<tempfiles, args, plat, si, ct, status, fs0>>

CfSparseFail ==
  \* a read or write of the sparse writer raises; leaving the with-block flushes
  /\ pc = "cf_sparse" /\ Running /\ CanFault
  /\ LET st == Flush(Stream)
     IN /\ fs' = IF st.data = fs[cf.rout].data THEN fs
                 ELSE [fs EXCEPT ![cf.rout].data = st.data, ![cf.rout].mtime = Now]
        /\ cf' = [cf EXCEPT !.wbuf = <<>>, !.rpos = st.rpos, !.exc = "OSError"]
  /\ faults' = faults + 1
  /\ pc' = "cf_cleanup"
  /\ UNCHANGED <<tempfiles, args, plat, si, ct, out, status, fs0>>

CfCleanupKeepsTemp ==
  \* a variant of the cleanup below that deregisters and re-raises but does
  \* not remove the temp file
  /\ pc = "cf_cleanup" /\ Running
  /\ fs' = fs
  /\ tempfiles' = tempfiles \ {cf.tmp}
  /\ cf' = [cf EXCEPT !.res = "raised"]
  /\ pc' = "cf_ret"
  /\ UNCHANGED <<args, plat, si, ct, out, status, faults, fs0>>

CfCleanup ==
  \* lines 184-191: remove the temp file (errors ignored), deregister, re-raise
  /\ pc = "cf_cleanup" /\ Running
  /\ fs' = Unlink(fs, cf.tmp).fs
  /\ tempfiles' = tempfiles \ {cf.tmp}
  /\ cf' = [cf EXCEPT !.res = "raised"]
  /\ pc' = "cf_ret"
  /\ UNCHANGED <<args, plat, si, ct, out, status, faults, fs0>>

CfReplace ==
  \* line 195: os.replace(tmp, dst); when it raises, line 197 goes on to shutil.move
  /\ pc = "cf_replace" /\ Running
  /\ LET r == Replace(fs, cf.tmp, cf.dst)
     IN /\ fs' = r.fs
        /\ pc' = IF r.ok THEN "cf_discard" ELSE "cf_move"
  /\ UNCHANGED <<tempfiles, args, plat, si, ct, cf, out, status, faults, fs0>>

CfReplaceFail ==
  \* os.replace raises for a reason outside the model (the destination is a
  \* mount point, the directory forbids it)
  /\ pc = "cf_replace" /\ Running /\ CanFault
  /\ faults' = faults + 1
  /\ pc' = "cf_move"
  /\ UNCHANGED <<fs, tempfiles, args, plat, si, ct, cf, out, status, fs0>>

MoveTarget(f, tmp, dst) == IF IsDir(f, dst) THEN Join(dst, Basename(tmp)) ELSE dst
\* shutil.move's real_dst: inside dst when dst is a directory

CfMove ==
  \* line 200, shutil.move(tmp, dst): real_dst, then os.rename; when the
  \* rename raises too, copy and unlink
  /\ pc = "cf_move" /\ Running
  /\ LET real_dst == MoveTarget(fs, cf.tmp, cf.dst)
         r == Replace(fs, cf.tmp, real_dst)
     IN IF IsDir(fs, cf.dst) /\ Exists(fs, real_dst)
        THEN fs' = fs /\ pc' = "cf_move_fail" /\ cf' = [cf EXCEPT !.exc = "Error"]
        ELSE \E renamed \in BOOLEAN :
               IF renamed /\ r.ok
               THEN fs' = r.fs /\ pc' = "cf_discard" /\ cf' = cf
               ELSE fs' = fs /\ pc' = "cf_move_open" /\ cf' = cf
  /\ UNCHANGED <<tempfiles, args, plat, si, ct, out, status, faults, fs0>>

CfMoveOpen ==
  \* shutil.copy2 inside shutil.move: open(tmp, 'rb'), open(real_dst, 'wb')
  /\ pc = "cf_move_open" /\ Running
  /\ LET real_dst == MoveTarget(fs, cf.tmp, cf.dst)
         o == OpenWrite(fs, real_dst)
     IN IF IsFile(fs, cf.tmp) /\ o.ok
        THEN /\ fs' = o.fs
             /\ cf' = [cf EXCEPT !.rout = Resolve(fs, real_dst, TRUE)]
             /\ pc' = "cf_move_write"
        ELSE /\ fs' = fs
             /\ cf' = [cf EXCEPT !.exc = "OSError"]
             /\ pc' = "cf_move_fail"
  /\ UNCHANGED <<tempfiles, args, plat, si, ct, out, status, faults, fs0>>

CfMoveWrite ==
  \* shutil.copy2 writes the bytes and copies the timestamps, then
  \* shutil.move unlinks the temp file
  /\ pc = "cf_move_write" /\ Running
  /\ LET rtmp == Resolve(fs, cf.tmp, TRUE)
         wr == [fs EXCEPT ![cf.rout].data = fs[rtmp].data, ![cf.rout].mtime = fs[rtmp].mtime]
     IN fs' = Unlink(wr, cf.tmp).fs
  /\ pc' = "cf_discard"
  /\ UNCHANGED <<tempfiles, args, plat, si, ct, cf, out, status, faults, fs0>>

CfMoveWriteFail ==
  \* the copy inside shutil.move raises after the destination was truncated
  /\ pc = "cf_move_write" /\ Running /\ CanFault
  /\ faults' = faults + 1
  /\ cf' = [cf EXCEPT !.exc = "OSError"]
  /\ pc' = "cf_move_fail"
  /\ UNCHANGED <<fs, tempfiles, args, plat, si, ct, out, status, fs0>>

CfMoveFail ==
  \* lines 202-204: deregister and re-raise; the temp file is not removed
  /\ pc = "cf_move_fail" /\ Running
  /\ tempfiles' = tempfiles \ {cf.tmp}
  /\ cf' = [cf EXCEPT !.res = "raised"]
  /\ pc' = "cf_ret"
  /\ UNCHANGED <<fs, args, plat, si, ct, out, status, faults, fs0>>

CfDiscard ==
  \* line 196 or 201: _tempfiles.discard(tmp)
  /\ pc = "cf_discard" /\ Running
  /\ tempfiles' = tempfiles \ {cf.tmp}
  /\ pc' = "cf_preserve"
  /\ UNCHANGED <<fs, args, plat, si, ct, cf, out, status, faults, fs0>>

CfOpen ==
  \* line 207, the non-atomic copy: open(src, 'rb') then open(dst, 'wb')
  /\ pc = "cf_open" /\ Running
  /\ LET o == OpenWrite(fs, cf.dst)
     IN IF ~IsFile(fs, cf.src)
        THEN fs' = fs /\ cf' = Raised("IsADirectoryError") /\ pc' = "cf_ret"
        ELSE IF ~o.ok
        THEN fs' = fs /\ pc' = "cf_ret"
             /\ cf' = Raised(IF IsDir(fs, cf.dst) THEN "IsADirectoryError" ELSE "OSError")
        ELSE /\ fs' = o.fs
             /\ cf' = [cf EXCEPT !.rsrc = Resolve(fs, cf.src, TRUE),
                                 !.rout = Resolve(fs, cf.dst, TRUE),
                                 !.off = 0, !.how = "direct"]
             /\ pc' = "cf_copy"
  /\ UNCHANGED <<tempfiles, args, plat, si, ct, out, status, faults, fs0>>

CfCopy ==
  \* lines 208-212: one read and write of the non-atomic loop
  /\ pc = "cf_copy" /\ Running
  /\ LET chunk == ReadChunk(fs, cf.rsrc, cf.off, args.bufsize)
     IN IF chunk = <<>>
        THEN fs' = fs /\ cf' = cf /\ pc' = "cf_preserve"
        ELSE /\ fs' = WriteAt(fs, cf.rout, cf.off, chunk)
             /\ cf' = [cf EXCEPT !.off = @ + Len(chunk)]
             /\ pc' = "cf_copy"
  /\ UNCHANGED <<tempfiles, args, plat, si, ct, out, status, faults, fs0>>

CfCopyFail ==
  \* a read or write of the non-atomic loop raises
  /\ pc = "cf_copy" /\ Running /\ CanFault
  /\ faults' = faults + 1
  /\ cf' = Raised("OSError")
  /\ pc' = "cf_ret"
  /\ UNCHANGED <<fs, tempfiles, args, plat, si, ct, out, status, fs0>>

CfPreserve ==
  \* lines 214-219, and the return
  /\ pc = "cf_preserve" /\ Running
  /\ fs' = IF args.preserve
           THEN preserve_metadata(fs, cf.src, cf.dst, args.dereference)
           ELSE fs
  /\ cf' = [cf EXCEPT !.res = "ok"]
  /\ pc' = "cf_ret"
  /\ UNCHANGED <<tempfiles, args, plat, si, ct, out, status, faults, fs0>>

(***************************************************************************)
(* copy_tree                                                               *)
(***************************************************************************)
Call(src, dst, caller) ==
  [NoFile EXCEPT !.src = src, !.dst = dst, !.caller = caller, !.pre = fs]

VerboseLine(kind, src, dst) ==
  IF args.verbose THEN <<Line("stdout", kind, src, dst, "")>> ELSE <<>>

SingleDst(f, src_root, dst_root) ==
  \* lines 249-252
  IF IsDir(f, dst_root) THEN Join(dst_root, Basename(src_root)) ELSE dst_root

CtEnter ==
  \* lines 241-265: the root is missing, a file or symlink, or a directory
  /\ pc = "ct_enter" /\ Running
  /\ UNCHANGED <<fs, tempfiles, args, plat, si, status, faults, fs0>>
  /\ IF ~Exists(fs, ct.src_root)
     THEN /\ ct' = [ct EXCEPT !.res = "raised", !.exc = "FileNotFoundError"]
          /\ pc' = "ct_ret" /\ cf' = cf /\ out' = out
     ELSE IF IsFile(fs, ct.src_root) \/ IsLink(fs, ct.src_root)
     THEN LET dst == SingleDst(fs, ct.src_root, ct.dst_root)
          IN IF should_skip_copy(fs, ct.src_root, dst, args.no_clobber, args.update)
             THEN /\ out' = out \o VerboseLine("skip", ct.src_root, dst)
                  /\ ct' = [ct EXCEPT !.res = "ok"]
                  /\ pc' = "ct_ret" /\ cf' = cf
             ELSE /\ cf' = Call(ct.src_root, dst, "root")
                  /\ pc' = "cf_enter" /\ ct' = ct /\ out' = out
     ELSE IF ~args.recursive
     THEN /\ ct' = [ct EXCEPT !.res = "raised", !.exc = "IsADirectoryError"]
          /\ pc' = "ct_ret" /\ cf' = cf /\ out' = out
     ELSE /\ ct' = [ct EXCEPT !.stack = <<ct.src_root>>]
          /\ pc' = "walk_next" /\ cf' = cf /\ out' = out

Listing(f, top) ==
  \* os.scandir(top): the names in top, in listing order
  LET r == Resolve(f, top, TRUE)
  IN SelectSeq(AllNames, LAMBDA n : Join(r, n) \in DOMAIN f)

Mirror(src_root, dst_root, root) ==
  \* lines 269-270: dst_root joined with root's path relative to src_root
  dst_root \o SubSeq(root, Len(src_root) + 1, Len(root))

WalkNext ==
  \* line 268, os.walk top-down: take the next directory, list it (a
  \* directory that cannot be listed is passed over: onerror is None), split
  \* the names into dirs and files; then lines 269-277: make the mirrored
  \* directory and copy the directory's metadata
  /\ pc = "walk_next" /\ Running
  /\ UNCHANGED <<tempfiles, args, plat, si, cf, out, status, faults, fs0>>
  /\ IF ct.stack = <<>>
     THEN fs' = fs /\ ct' = [ct EXCEPT !.res = "ok"] /\ pc' = "ct_ret"
     ELSE LET top == Head(ct.stack)
              names == Listing(fs, top)
              dirs == SelectSeq(names, LAMBDA n : IsDir(fs, Join(top, n)))
              files == SelectSeq(names, LAMBDA n : ~IsDir(fs, Join(top, n)))
              dst_dir == Mirror(ct.src_root, ct.dst_root, top)
              mk == MakeDirs(fs, dst_dir)
          IN IF ~IsDir(fs, top)
             THEN fs' = fs /\ ct' = [ct EXCEPT !.stack = Tail(@)] /\ pc' = "walk_next"
             ELSE IF ~mk.ok
             THEN /\ fs' = fs
                  /\ ct' = [ct EXCEPT !.res = "raised", !.exc = "FileExistsError"]
                  /\ pc' = "ct_ret"
             ELSE /\ fs' = IF args.preserve
                           THEN preserve_metadata(mk.fs, top, dst_dir, args.dereference)
                           ELSE mk.fs
                  /\ ct' = [ct EXCEPT !.stack = Tail(@), !.root = top, !.dst_dir = dst_dir,
                                      !.dirs = dirs, !.files = files, !.todo = dirs]
                  /\ pc' = "walk_files"

WalkFile ==
  \* lines 278-287: the next file of the directory is skipped or copied
  /\ pc = "walk_files" /\ Running
  /\ UNCHANGED <<fs, tempfiles, args, plat, si, status, faults, fs0>>
  /\ IF ct.files = <<>>
     THEN pc' = "walk_dirs" /\ ct' = ct /\ cf' = cf /\ out' = out
     ELSE LET s == Join(ct.root, Head(ct.files))
              d == Join(ct.dst_dir, Head(ct.files))
          IN IF should_skip_copy(fs, s, d, args.no_clobber, args.update)
             THEN /\ out' = out \o VerboseLine("skip", s, d)
                  /\ ct' = [ct EXCEPT !.files = Tail(@)]
                  /\ pc' = "walk_files" /\ cf' = cf
             ELSE /\ cf' = Call(s, d, "walk")
                  /\ pc' = "cf_enter" /\ ct' = ct /\ out' = out

ReplicateLink(f, sdir, ddir) ==
  \* lines 299-305: any exception is swallowed, leaving what was done before it
  LET un == IF Exists(f, ddir) THEN Unlink(f, ddir) ELSE Ok(f)
  IN IF ~un.ok THEN f ELSE Symlink(un.fs, ReadLink(f, sdir), ddir).fs

DescendRevisits(f, root, dirs, follow) ==
  \* a walk that queues again the directory it has just listed
  <<root>>

Descend(f, root, dirs, follow) ==
  \* os.walk after the loop body: the subdirectories to visit, symlinks
  \* among them only when followlinks is set
  LET keep == SelectSeq(dirs, LAMBDA n : follow \/ ~IsLink(f, Join(root, n)))
  IN [i \in 1..Len(keep) |-> Join(root, keep[i])]

WalkDir ==
  \* lines 293-305: each symlinked subdirectory is replicated as a link;
  \* after the last, os.walk queues the subdirectories it descends into
  /\ pc = "walk_dirs" /\ Running
  /\ UNCHANGED <<tempfiles, args, plat, si, cf, out, status, faults, fs0>>
  /\ IF ct.todo = <<>>
     THEN /\ fs' = fs
          /\ ct' = [ct EXCEPT !.stack = Descend(fs, ct.root, ct.dirs, args.dereference) \o @]
          /\ pc' = "walk_next"
     ELSE LET sdir == Join(ct.root, Head(ct.todo))
              ddir == Join(ct.dst_dir, Head(ct.todo))
          IN /\ fs' = IF IsLink(fs, sdir) /\ ~args.dereference
                      THEN ReplicateLink(fs, sdir, ddir) ELSE fs
             /\ ct' = [ct EXCEPT !.todo = Tail(@)]
             /\ pc' = "walk_dirs"

CfReturn ==
  \* copy_file has returned or raised: lines 259-261 for a root that is a
  \* file (an exception goes on to main), lines 288-291 inside the walk
  /\ pc = "cf_ret" /\ Running
  /\ UNCHANGED <<fs, tempfiles, args, plat, si, status, faults, fs0>>
  /\ cf' = NoFile
  /\ IF cf.caller = "root"
     THEN /\ pc' = "ct_ret"
          /\ IF cf.res = "ok"
             THEN /\ out' = out \o VerboseLine("ok", cf.src, cf.dst)
                  /\ ct' = [ct EXCEPT !.res = "ok"]
             ELSE /\ out' = out
                  /\ ct' = [ct EXCEPT !.res = "raised", !.exc = cf.exc]
     ELSE /\ pc' = "walk_files"
          /\ ct' = [ct EXCEPT !.files = Tail(@)]
          /\ out' = out \o (IF cf.res = "ok" THEN VerboseLine("ok", cf.src, cf.dst)
                            ELSE <<Line("stderr", "error", cf.src, cf.dst, cf.exc)>>)

(***************************************************************************)
(* main                                                                    *)
(***************************************************************************)
FinalDst(f, s, dst) == IF IsDir(f, dst) THEN Join(dst, Basename(s)) ELSE dst
\* lines 337-340

MultiToNonDirByExists(f, srcs, dst) == Len(srcs) > 1 /\ ~Exists(f, dst)
\* a variant of the test below that asks whether DST exists, not whether it
\* is a directory: with it, several sources go on to an existing file

MultiToNonDir(f, srcs, dst) == Len(srcs) > 1 /\ ~IsDir(f, dst)
\* lines 329-330: several sources and a DST that is not a directory

MainCheck ==
  \* lines 329-332
  /\ pc = "main_check" /\ Running
  /\ IF MultiToNonDir(fs, args.src, args.dst)
     THEN /\ out' = out \o <<Line("stderr", "usage", <<>>, args.dst, "")>>
          /\ status' = 2
          /\ pc' = "exit"
     ELSE /\ out' = out /\ status' = status /\ pc' = "main_loop"
  /\ UNCHANGED <<fs, tempfiles, args, plat, si, ct, cf, faults, fs0>>

MainLoopCopiesAnyway ==
  \* a variant of the loop below without the dry-run test of line 342: it
  \* calls copy_tree for every source
  /\ pc = "main_loop" /\ Running
  /\ UNCHANGED <<fs, tempfiles, args, plat, cf, faults, fs0>>
  /\ IF si > Len(args.src)
     THEN status' = 0 /\ pc' = "exit" /\ si' = si /\ ct' = ct /\ out' = out
     ELSE LET s == args.src[si]
              d_final == FinalDst(fs, s, args.dst)
          IN /\ ct' = [NoTree EXCEPT !.src_root = s, !.dst_root = d_final, !.pre = fs]
             /\ pc' = "ct_enter"
             /\ si' = si /\ out' = out /\ status' = status

MainLoop ==
  \* lines 334-350: the next source, its destination, the dry-run line or
  \* the call of copy_tree; after the last source the run ends with status 0
  /\ pc = "main_loop" /\ Running
  /\ UNCHANGED <<fs, tempfiles, args, plat, cf, faults, fs0>>
  /\ IF si > Len(args.src)
     THEN status' = 0 /\ pc' = "exit" /\ si' = si /\ ct' = ct /\ out' = out
     ELSE LET s == args.src[si]
              d_final == FinalDst(fs, s, args.dst)
          IN IF args.dry_run
             THEN /\ out' = out \o <<Line("stdout", "dry-run", s, d_final, "")>>
                  /\ si' = si + 1
                  /\ pc' = "main_loop" /\ ct' = ct /\ status' = status
             ELSE /\ ct' = [NoTree EXCEPT !.src_root = s, !.dst_root = d_final, !.pre = fs]
                  /\ pc' = "ct_enter"
                  /\ si' = si /\ out' = out /\ status' = status

CtReturn ==
  \* copy_tree has returned or raised: lines 351-352, then the next source
  /\ pc = "ct_ret" /\ Running
  /\ out' = out \o (IF ct.res = "raised"
                    THEN <<Line("stderr", "Error", ct.src_root, ct.dst_root, ct.exc)>>
                    ELSE <<>>)
  /\ si' = si + 1
  /\ ct' = NoTree
  /\ pc' = "main_loop"
  /\ UNCHANGED <<fs, tempfiles, args, plat, cf, status, faults, fs0>>

(***************************************************************************)
(* sig_handler, lines 35-42: SIGINT or SIGTERM arrives between two steps   *)
(***************************************************************************)
RECURSIVE RemoveAll(_, _)
RemoveAll(f, tfs) ==
  IF tfs = {} THEN f
  ELSE LET tf == CHOOSE t \in tfs : TRUE
       IN RemoveAll(IF Exists(f, tf) THEN Unlink(f, tf).fs ELSE f, tfs \ {tf})

sig_handler ==
  /\ Running
  /\ fs' = RemoveAll(fs, tempfiles)
  /\ status' = 1
  /\ pc' = "exit"
  /\ UNCHANGED <<tempfiles, args, plat, si, ct, cf, out, faults, fs0>>

(***************************************************************************)
(* The runs checked: a filesystem, a command line and a platform           *)
(***************************************************************************)
pF == <<"f">>
pG == <<"g">>
pH == <<"h">>
Old == <<2>>
\* what a destination file holds before the run

Contents == UNION {[1..n -> {0, 1}] : n \in 0..MaxLen}

RootFs == Root :> Dir(1)

BaseArgs ==
  [src |-> <<pF>>, dst |-> pG, recursive |-> FALSE, preserve |-> FALSE,
   dereference |-> FALSE, no_clobber |-> FALSE, update |-> FALSE,
   sparse_threshold |-> 1, bufsize |-> 1, no_atomic |-> FALSE,
   verbose |-> FALSE, dry_run |-> FALSE]

Transfers ==
  \* pycp [--bufsize b] [--sparse-threshold t] /f /g, any content of /f
  {[fs |-> RootFs @@ (pF :> File(c, 1)),
    args |-> [BaseArgs EXCEPT !.bufsize = b, !.sparse_threshold = t],
    plat |-> [sendfile |-> sf, iobuf |-> io]] :
      c \in Contents, b \in 1..MaxBuf, t \in 1..MaxBuf, sf \in BOOLEAN, io \in 1..MaxIoBuf}

VerboseTransfers ==
  \* pycp -v /f /g on a platform without os.sendfile
  {[fs |-> RootFs @@ (pF :> File(c, 1)),
    args |-> [BaseArgs EXCEPT !.verbose = TRUE, !.no_atomic = na],
    plat |-> [sendfile |-> FALSE, iobuf |-> 1]] : c \in Contents, na \in BOOLEAN}

MtimePairs(update) == IF update THEN (1..MaxMtime) \X (1..MaxMtime) ELSE {<<1, 1>>}
\* the source's and the destination's mtime: they matter under -u only

DstKinds == {"absent", "file", "link", "dangling", "dir", "dirdir"}

DstFs(kind, md) ==
  \* what is at /g before the run
  CASE kind = "absent" -> <<>>
    [] kind = "file" -> pG :> File(Old, md)
    [] kind = "link" -> (pG :> Link(pH, 1)) @@ (pH :> File(Old, md))
    [] kind = "dangling" -> pG :> Link(pH, 1)
    [] kind = "dir" -> pG :> Dir(md)
    [] kind = "dirdir" -> (pG :> Dir(md)) @@ (Join(pG, "f") :> Dir(md))

Policies ==
  \* pycp [-n] [-u] [-p] [--no-atomic] /f /g, /f a regular file
  UNION {{[fs |-> RootFs @@ (pF :> File(<<1, 0>>, mm[1])) @@ DstFs(k, mm[2]),
           args |-> [BaseArgs EXCEPT !.no_clobber = nc, !.update = up,
                                     !.no_atomic = na, !.preserve = pr],
           plat |-> [sendfile |-> sf, iobuf |-> 1]] :
             k \in DstKinds, mm \in MtimePairs(up), nc \in BOOLEAN,
             na \in BOOLEAN, pr \in BOOLEAN, sf \in BOOLEAN} : up \in BOOLEAN}

pA == <<"a">>
pS == <<"s">>
pD == <<"d">>

SrcLinkFs(kind) ==
  \* /f is a symlink: to the file /a, to nothing, to the directory /s
  CASE kind = "tofile" -> (pF :> Link(pA, 1)) @@ (pA :> File(<<1>>, 1))
    [] kind = "dangling" -> pF :> Link(pA, 1)
    [] kind = "todir" -> (pF :> Link(pS, 1)) @@ (pS :> Dir(1))
                           @@ (Join(pS, "x") :> File(<<1>>, 1))

Links ==
  \* pycp [-L] [-n] [-p] [--no-atomic] /f /g, /f a symlink
  {[fs |-> RootFs @@ SrcLinkFs(sk) @@ DstFs(k, 1),
    args |-> [BaseArgs EXCEPT !.dereference = de, !.no_clobber = nc,
                              !.no_atomic = na, !.preserve = pr],
    plat |-> [sendfile |-> TRUE, iobuf |-> 1]] :
      sk \in {"tofile", "dangling", "todir"}, k \in DstKinds \ {"dirdir"},
      de \in BOOLEAN, nc \in BOOLEAN, na \in BOOLEAN, pr \in BOOLEAN}

SamePath ==
  \* pycp [-L] [--no-atomic] /f /f and pycp /f /a with /a a link to /f
  {[fs |-> RootFs @@ sf @@ (pA :> Link(pF, 1)),
    args |-> [BaseArgs EXCEPT !.dst = d, !.no_atomic = na, !.dereference = de],
    plat |-> [sendfile |-> TRUE, iobuf |-> 1]] :
      sf \in {pF :> File(<<1, 0>>, 1), (pF :> Link(pH, 1)) @@ (pH :> File(<<1, 0>>, 1))},
      d \in {pF, pA}, na \in BOOLEAN, de \in BOOLEAN}

SrcTree(link) ==
  \* /s/x, /s/sub/y and, in /s, the symlink l to a directory
  (pS :> Dir(1)) @@ (Join(pS, "x") :> File(<<1>>, 1)) @@ (Join(pS, "sub") :> Dir(1))
    @@ (Join(Join(pS, "sub"), "y") :> File(<<0>>, 1))
    @@ (CASE link = "none" -> <<>>
          [] link = "sub" -> Join(pS, "l") :> Link(Join(pS, "sub"), 1)
          [] link = "loop" -> Join(pS, "l") :> Link(pS, 1))

pDS == Join(pD, "s")

DstTree(kind) ==
  \* what is under /d before the run; /d/s mirrors /s when /d exists
  CASE kind = "absent" -> <<>>
    [] kind = "empty" -> pD :> Dir(1)
    [] kind = "x_file" -> (pD :> Dir(1)) @@ (pDS :> Dir(1)) @@ (Join(pDS, "x") :> File(Old, 1))
    [] kind = "x_dir" -> (pD :> Dir(1)) @@ (pDS :> Dir(1)) @@ (Join(pDS, "x") :> Dir(1))
    [] kind = "x_dangling" ->
         (pD :> Dir(1)) @@ (pDS :> Dir(1)) @@ (Join(pDS, "x") :> Link(pH, 1))
    [] kind = "sub_file" ->
         (pD :> Dir(1)) @@ (pDS :> Dir(1)) @@ (Join(pDS, "sub") :> File(Old, 1))
    [] kind = "l_file" -> (pD :> Dir(1)) @@ (pDS :> Dir(1)) @@ (Join(pDS, "l") :> File(Old, 1))
    [] kind = "l_dir" -> (pD :> Dir(1)) @@ (pDS :> Dir(1)) @@ (Join(pDS, "l") :> Dir(1))
    [] kind = "l_dangling" ->
         (pD :> Dir(1)) @@ (pDS :> Dir(1)) @@ (Join(pDS, "l") :> Link(pH, 1))
    [] kind = "l_link" ->
         (pD :> Dir(1)) @@ (pDS :> Dir(1)) @@ (Join(pDS, "l") :> Link(pD, 1))

TreeArgs == [BaseArgs EXCEPT !.src = <<pS>>, !.dst = pD]

Trees ==
  \* pycp [-r] [-L] [-p] /s /d and pycp -r /s /s/d
  {[fs |-> RootFs @@ SrcTree(l) @@ DstTree(k),
    args |-> [TreeArgs EXCEPT !.recursive = re, !.dereference = de, !.preserve = re /\ sf],
    plat |-> [sendfile |-> sf, iobuf |-> 1]] :
      l \in {"none", "sub", "loop"}, k \in {"absent", "empty"},
      re \in BOOLEAN, de \in BOOLEAN, sf \in BOOLEAN}
  \cup
  {[fs |-> RootFs @@ SrcTree(l),
    args |-> [TreeArgs EXCEPT !.recursive = TRUE, !.dereference = de, !.dst = Join(pS, "d")],
    plat |-> [sendfile |-> TRUE, iobuf |-> 1]] :
      l \in {"none", "loop"}, de \in BOOLEAN}

Clobbers ==
  \* pycp -r [-n] [-u] [--no-atomic] /s /d with entries already under /d/s
  {[fs |-> RootFs @@ SrcTree("none") @@ DstTree(k),
    args |-> [TreeArgs EXCEPT !.recursive = TRUE, !.no_clobber = nc, !.update = up,
                              !.no_atomic = na],
    plat |-> [sendfile |-> TRUE, iobuf |-> 1]] :
      k \in {"x_file", "x_dir", "x_dangling", "sub_file"},
      nc \in BOOLEAN, up \in BOOLEAN, na \in BOOLEAN}
  \cup
  {[fs |-> RootFs @@ SrcTree("sub") @@ DstTree(k),
    args |-> [TreeArgs EXCEPT !.recursive = TRUE, !.no_clobber = nc, !.dereference = de],
    plat |-> [sendfile |-> TRUE, iobuf |-> 1]] :
      k \in {"l_file", "l_dir", "l_dangling", "l_link"}, nc \in BOOLEAN, de \in BOOLEAN}

MultiDst(kind) ==
  \* what is at /g when two sources are given
  CASE kind = "absent" -> <<>>
    [] kind = "file" -> pG :> File(Old, 1)
    [] kind = "dangling" -> pG :> Link(pA, 1)
    [] kind = "dir" -> pG :> Dir(1)
    [] kind = "linkdir" -> (pG :> Link(pD, 1)) @@ (pD :> Dir(1))

Multis ==
  \* pycp [-r] [-v] [--dry-run] [--no-atomic] /f /s /g: a file and a directory
  {[fs |-> RootFs @@ (pF :> File(<<1>>, 1)) @@ SrcTree("none") @@ MultiDst(k),
    args |-> [BaseArgs EXCEPT !.src = srcs, !.dry_run = dr, !.verbose = vb,
                              !.recursive = re, !.no_atomic = dr /\ vb],
    plat |-> [sendfile |-> TRUE, iobuf |-> 1]] :
      k \in {"absent", "file", "dangling", "dir", "linkdir"},
      srcs \in {<<pF, pS>>, <<pS>>, <<pF, pF>>},
      dr \in BOOLEAN, vb \in BOOLEAN, re \in BOOLEAN}

Twice ==
  \* pycp [-n] [-u] [-p] [-L] [--no-atomic] /f /f /g, /g a directory: the
  \* same copy made twice in a row
  {[fs |-> RootFs @@ src @@ (pG :> Dir(1)) @@ old,
    args |-> [BaseArgs EXCEPT !.src = <<pF, pF>>, !.no_clobber = nc, !.update = up,
                              !.no_atomic = na, !.dereference = de, !.preserve = pr],
    plat |-> [sendfile |-> sf, iobuf |-> 1]] :
      src \in {pF :> File(<<1, 0>>, 1), SrcLinkFs("tofile")},
      old \in {<<>>, Join(pG, "f") :> File(Old, 1)},
      nc \in BOOLEAN, up \in BOOLEAN, na \in BOOLEAN, de \in BOOLEAN,
      pr \in BOOLEAN, sf \in BOOLEAN}

Nested ==
  \* pycp -r [-L] /s /s/d with /s/d a directory: the walk finds under /s the
  \* directories it makes itself
  {[fs |-> RootFs @@ SrcTree(l) @@ (Join(pS, "d") :> Dir(1)),
    args |-> [TreeArgs EXCEPT !.recursive = TRUE, !.dereference = de, !.dst = Join(pS, "d")],
    plat |-> [sendfile |-> TRUE, iobuf |-> 1]] :
      l \in {"none", "loop"}, de \in BOOLEAN}

Scenarios ==
  Transfers \cup VerboseTransfers \cup Policies \cup Links \cup SamePath
    \cup Trees \cup Clobbers \cup Multis \cup Twice \cup Nested

Init ==
  \E sc \in Scenarios :
    /\ fs = sc.fs
    /\ fs0 = sc.fs
    /\ args = sc.args
    /\ plat = sc.plat
    /\ tempfiles = {}
    /\ pc = "main_check"
    /\ si = 1
    /\ ct = NoTree
    /\ cf = NoFile
    /\ out = <<>>
    /\ status = -1
    /\ faults = 0

Next ==
  \/ sig_handler
  \/ MainCheck \/ MainLoop \/ CtEnter \/ CtReturn
  \/ WalkNext \/ WalkFile \/ WalkDir
  \/ CfEnter \/ CfMkstemp \/ CfMkstempFail \/ CfRegister
  \/ CfSendfileOpen \/ CfSendfile \/ CfSendfileFail
  \/ CfSparseOpen \/ CfSparse \/ CfSparseSeekFail \/ CfSparseFail \/ CfCleanup
  \/ CfReplace \/ CfReplaceFail \/ CfMove \/ CfMoveOpen \/ CfMoveWrite
  \/ CfMoveWriteFail \/ CfMoveFail \/ CfDiscard
  \/ CfOpen \/ CfCopy \/ CfCopyFail \/ CfPreserve \/ CfReturn

Spec == Init /\ [][Next]_vars

Walks == Trees \cup Clobbers \cup Nested
\* the runs whose source is a directory tree

InitWalks ==
  Init /\ \E sc \in Walks : fs = sc.fs /\ args = sc.args /\ plat = sc.plat

\* The program is one sequential thread and every call it makes returns: as
\* long as the process runs, a step is taken.
SpecWalks == InitWalks /\ [][Next]_vars /\ WF_vars(Next)

(***************************************************************************)
(* Vocabulary of the properties                                            *)
(***************************************************************************)
Held(f, p) ==
  \* what path p holds: the entry itself and what is read through it
  [kind |-> LStat(f, p).kind, target |-> LStat(f, p).target,
   seen |-> Stat(f, p).kind, data |-> Stat(f, p).data]

IsCopyOf(f, p, data) == Stat(f, p).kind = "file" /\ Stat(f, p).data = data
\* reading p gives a regular file with exactly these bytes

SameEntry(e1, e2) == e1.kind = e2.kind /\ e1.data = e2.data /\ e1.target = e2.target
\* the same kind of entry with the same bytes or link target

IsPrefix(a, p) == Len(a) <= Len(p) /\ SubSeq(p, 1, Len(a)) = a
\* path p is a or lies under a

IsRegular(f, p) == IsFile(f, p) /\ ~IsLink(f, p)
\* p is a regular file and not a symlink to one

LastChunk(data, bufsize) ==
  \* the last non-empty chunk that reading data by bufsize bytes yields
  IF data = <<>> THEN <<>>
  ELSE SubSeq(data, ((Len(data) - 1) \div bufsize) * bufsize + 1, Len(data))

RECURSIVE TreeFiles(_, _, _)
TreeFiles(f, top, follow) ==
  \* the paths of the non-directories a walk of top meets, symlinked
  \* directories entered only when follow is set
  IF ~IsDir(f, top) THEN {}
  ELSE LET names == {AllNames[i] : i \in 1..Len(AllNames)}
           here == {n \in names : Join(Resolve(f, top, TRUE), n) \in DOMAIN f}
       IN {Join(top, n) : n \in {m \in here : ~IsDir(f, Join(top, m))}}
          \cup UNION {TreeFiles(f, Join(top, n), follow) :
                        n \in {m \in here : /\ IsDir(f, Join(top, m))
                                            /\ (follow \/ ~IsLink(f, Join(top, m)))}}

Reported(p) == \E i \in 1..Len(out) : out[i].kind = "error" /\ out[i].src = p
\* the walk has printed "Failed to copy" for source p

WalkReturned ==
  \* copy_tree has walked a directory and returned normally
  /\ pc = "ct_ret" /\ ct.res = "ok"
  /\ args.recursive /\ IsDir(ct.pre, ct.src_root)

MirroredOrExcused(p) ==
  \* file p of the walked tree is skipped, reported as failed, or present
  \* with the source's content at its mirrored path
  LET d == Mirror(ct.src_root, ct.dst_root, p)
  IN \/ should_skip_copy(ct.pre, p, d, args.no_clobber, args.update)
     \/ Reported(p)
     \/ IsCopyOf(fs, d, Stat(ct.pre, p).data)

AtomicFileCall ==
  \* a copy_file call in atomic mode that copies a file's content
  /\ cf.caller # "" /\ ~args.no_atomic
  /\ Exists(cf.pre, cf.src)
  /\ ~(IsLink(cf.pre, cf.src) /\ ~args.dereference)

(***************************************************************************)
(* C1. When copy_file in atomic mode returns successfully for a regular    *)
(* source file (sparse-writer fallback included), reading the destination  *)
(* gives a file with the source's size and the source's bytes.  Stated for *)
(* a destination that was not a directory before the call.                 *)
(***************************************************************************)
C1_AtomicCopyFaithful ==
  (/\ pc = "cf_ret" /\ cf.res = "ok" /\ ~args.no_atomic
   /\ IsRegular(cf.pre, cf.src)
   /\ ~IsDir(cf.pre, cf.dst))
  => /\ IsCopyOf(fs, cf.dst, Stat(cf.pre, cf.src).data)
     /\ Len(Stat(fs, cf.dst).data) = Len(Stat(cf.pre, cf.src).data)

(***************************************************************************)
(* C2. Throughout an atomic copy_file call, whatever interrupts it, the    *)
(* destination path holds either what it held before the call or the       *)
(* complete source content, and it changes at most once: every change      *)
(* starts from what the path held before the call.                         *)
(***************************************************************************)
C2_OldOrComplete ==
  AtomicFileCall => \/ Held(fs, cf.dst) = Held(cf.pre, cf.dst)
                    \/ IsCopyOf(fs, cf.dst, Stat(cf.pre, cf.src).data)

C2_ChangesOnce ==
  (/\ AtomicFileCall /\ cf' = cf
   /\ Held(fs', cf.dst) # Held(fs, cf.dst))
  => Held(fs, cf.dst) = Held(cf.pre, cf.dst)

C2_AtomicPublish == [](C2_OldOrComplete) /\ [][C2_ChangesOnce]_vars

(***************************************************************************)
(* C3. When the sparse writer has transferred a source whose final chunk   *)
(* it turns into a hole (an all-zero source of at least sparse_threshold   *)
(* bytes among them), the file it wrote has exactly the source's length.   *)
(***************************************************************************)
C3_TrailingHoleKeepsLength ==
  (/\ pc = "cf_replace" /\ cf.how = "sparse"
   /\ IsRegular(cf.pre, cf.src)
   /\ IsHole(LastChunk(Stat(cf.pre, cf.src).data, args.bufsize), args.sparse_threshold))
  => Len(Stat(fs, cf.tmp).data) = Len(Stat(cf.pre, cf.src).data)

(***************************************************************************)
(* C4. With no_clobber set, when copy_tree returns (single root or walk),  *)
(* every entry that existed at or under the destination before the call    *)
(* is still there with the same kind, bytes and link target.               *)
(***************************************************************************)
C4_NoClobberKeepsEntries ==
  (pc = "ct_ret" /\ args.no_clobber)
  => \A p \in DOMAIN ct.pre :
       IsPrefix(ct.dst_root, p) => p \in DOMAIN fs /\ SameEntry(fs[p], ct.pre[p])

(***************************************************************************)
(* C5. With update set, no_clobber unset and a destination that exists,    *)
(* when copy_tree returns normally for a single file: if the source's      *)
(* mtime is not later than the destination's, the destination holds what   *)
(* it held before; otherwise the destination is a copy of the source.      *)
(***************************************************************************)
C5_UpdateOnlyByMtime ==
  LET dst == SingleDst(ct.pre, ct.src_root, ct.dst_root)
  IN (/\ pc = "ct_ret" /\ ct.res = "ok"
      /\ args.update /\ ~args.no_clobber
      /\ IsRegular(ct.pre, ct.src_root)
      /\ Exists(ct.pre, dst))
     => IF Stat(ct.pre, ct.src_root).mtime <= Stat(ct.pre, dst).mtime
        THEN Held(fs, dst) = Held(ct.pre, dst) /\ Stat(fs, dst) = Stat(ct.pre, dst)
        ELSE IsCopyOf(fs, dst, Stat(ct.pre, ct.src_root).data)

(***************************************************************************)
(* C6. When a walk in which the copy of some file failed returns, every    *)
(* other regular file of the tree that was not skipped and whose own copy  *)
(* did not fail is at its mirrored path with the source's content.         *)
(***************************************************************************)
C6_WalkSurvivesFailure ==
  (/\ WalkReturned
   /\ \E q \in TreeFiles(ct.pre, ct.src_root, args.dereference) : Reported(q))
  => \A p \in TreeFiles(ct.pre, ct.src_root, args.dereference) :
       IsRegular(ct.pre, p) => MirroredOrExcused(p)

(***************************************************************************)
(* C7. When a recursive copy_tree returns normally, the destination root   *)
(* is a directory and every regular file reachable under the source root   *)
(* was skipped, was reported as failed, or is at its mirrored path with    *)
(* the source's content.                                                   *)
(***************************************************************************)
C7_TreeMirrored ==
  WalkReturned
  => /\ IsDir(fs, ct.dst_root)
     /\ \A p \in TreeFiles(ct.pre, ct.src_root, args.dereference) :
          IsRegular(ct.pre, p) => MirroredOrExcused(p)

(***************************************************************************)
(* C8. When copy_tree returns for a source that is a symlink, copied with  *)
(* dereference off and not skipped, the destination is a symlink with the  *)
(* source link's target string: whether or not the link's target exists,   *)
(* and whether a file, a symlink or a dangling symlink was at the          *)
(* destination before.                                                     *)
(***************************************************************************)
C8_SymlinkReplicated ==
  LET dst == SingleDst(ct.pre, ct.src_root, ct.dst_root)
  IN (/\ pc = "ct_ret"
      /\ LStat(ct.pre, ct.src_root).kind = "link" /\ ~args.dereference
      /\ LStat(ct.pre, dst).kind \in {"none", "file", "link"}
      /\ ~should_skip_copy(ct.pre, ct.src_root, dst, args.no_clobber, args.update))
     => /\ LStat(fs, dst).kind = "link"
        /\ LStat(fs, dst).target = LStat(ct.pre, ct.src_root).target

(***************************************************************************)
(* C9. copy_tree on a source that is a directory (a symlink to one only    *)
(* when symlinks are followed), recursive unset, writes nothing to the     *)
(* filesystem at any point of the call and ends by raising                 *)
(* IsADirectoryError.                                                      *)
(***************************************************************************)
C9_DirWithoutRecursive ==
  (/\ ct.src_root # <<>> /\ ~args.recursive
   /\ IsDir(ct.pre, ct.src_root)
   /\ (IsLink(ct.pre, ct.src_root) => args.dereference))
  => /\ fs = ct.pre
     /\ pc = "ct_ret" => ct.res = "raised" /\ ct.exc = "IsADirectoryError"

(***************************************************************************)
(* C10. With more than one source and a DST that is not an existing        *)
(* directory, no copy is ever begun and the filesystem stays as it was;    *)
(* the run ends with the usage diagnostic on stderr as its only output     *)
(* and exit status 2 (status 1 if a signal ended it first).                *)
(***************************************************************************)
C10_MultiSourceNeedsDir ==
  (Len(args.src) > 1 /\ Stat(fs0, args.dst).kind # "dir")
  => /\ fs = fs0
     /\ pc \in {"main_check", "exit"}
     /\ ct = NoTree /\ cf = NoFile
     /\ \A i \in 1..Len(out) : out[i].kind = "usage" /\ out[i].stream = "stderr"
     /\ pc = "exit" => \/ status = 2 /\ Len(out) = 1
                       \/ status = 1 /\ out = <<>>

C10_Refused ==
  \* a run with two sources and a DST that is a regular file has ended
  /\ Len(args.src) > 1 /\ Stat(fs0, args.dst).kind = "file"
  /\ pc = "exit" /\ status = 2 /\ Len(out) = 1

(***************************************************************************)
(* C11. When the same source is copied to the same destination twice in a  *)
(* row with the same options, the source unchanged and both copies         *)
(* returning normally, the destination holds after the second copy exactly *)
(* what it held after the first.                                           *)
(***************************************************************************)
SecondOfTwo ==
  \* the second of two copies of the same source has returned, and neither
  \* copy raised
  /\ pc = "ct_ret" /\ si = 2 /\ Len(args.src) = 2 /\ args.src[1] = args.src[2]
  /\ ct.res = "ok"
  /\ \A i \in 1..Len(out) : out[i].kind # "Error"
  /\ Held(fs, args.src[1]) = Held(fs0, args.src[1])

C11_Idempotent == SecondOfTwo => Held(fs, ct.dst_root) = Held(ct.pre, ct.dst_root)

(***************************************************************************)
(* C12. In a run with dry_run set the filesystem never changes (nothing is *)
(* created, changed or removed, no temp file is registered, copy_tree and  *)
(* copy_file are never entered), and the run prints exactly one dry-run    *)
(* line per source, in order, naming the source and the destination        *)
(* resolved for it.                                                        *)
(***************************************************************************)
DryRunLine(i) ==
  \* the line expected for the i-th source
  Line("stdout", "dry-run", args.src[i],
       IF Stat(fs0, args.dst).kind = "dir"
       THEN args.dst \o <<args.src[i][Len(args.src[i])]>> ELSE args.dst, "")

C12_DryRunOnlyPrints ==
  args.dry_run
  => /\ fs = fs0 /\ tempfiles = {}
     /\ ct = NoTree /\ cf = NoFile
     /\ \/ out = <<Line("stderr", "usage", <<>>, args.dst, "")>> /\ status = 2
        \/ /\ Len(out) <= Len(args.src)
           /\ \A i \in 1..Len(out) : out[i] = DryRunLine(i)
           /\ status = 0 => Len(out) = Len(args.src)

C12_DryRunDone ==
  \* a dry run over two sources into a directory has ended
  /\ args.dry_run /\ Len(args.src) = 2 /\ Stat(fs0, args.dst).kind = "dir"
  /\ pc = "exit" /\ status = 0 /\ Len(out) = 2

(***************************************************************************)
(* C13. Whenever copy_file in atomic mode returns, normally or by raising  *)
(* at any step after the temp file was made, the temp file's path is not   *)
(* in _tempfiles and no temp file made by the call is left on disk: it was *)
(* renamed onto the destination or removed.                                *)
(***************************************************************************)
TempLeftBy(before, after) ==
  \* the temp files on disk now that were not there before
  {p \in DOMAIN after \ DOMAIN before :
     \E i \in 1..Len(TmpNames) : p[Len(p)] = TmpNames[i]}

C13_TempReleased ==
  (pc = "cf_ret" /\ ~args.no_atomic /\ cf.tmp # <<>>)
  => /\ cf.tmp \notin tempfiles
     /\ LStat(fs, cf.tmp).kind = "none"
     /\ TempLeftBy(cf.pre, fs) = {}

(***************************************************************************)
(* C14. Once sig_handler has run, the temp file of the copy that was       *)
(* interrupted, made by the run and not renamed, is no longer on disk;     *)
(* that is, whenever that temp file is on disk its path is in _tempfiles.  *)
(***************************************************************************)
C14_SignalCleansTemp ==
  (pc = "exit" /\ status = 1 /\ cf.tmp # <<>>)
  => LStat(fs, cf.tmp).kind = "none"

(***************************************************************************)
(* C15. When the transfer into the temp file has raised in atomic mode     *)
(* (the run is at "cf_cleanup"), the next step of copy_file removes the    *)
(* temp file, takes its path out of _tempfiles and returns to the caller   *)
(* with the error raised, and the destination path holds exactly what it   *)
(* held before the call.                                                   *)
(***************************************************************************)
C15_CleanupStep ==
  (pc = "cf_cleanup" /\ pc' # "exit")
  => /\ pc' = "cf_ret" /\ cf'.res = "raised" /\ cf'.exc = cf.exc /\ cf.exc # ""
     /\ LStat(fs', cf.tmp).kind = "none"
     /\ TempLeftBy(cf.pre, fs') = {}
     /\ cf.tmp \notin tempfiles'
     /\ LStat(fs', cf.dst) = LStat(cf.pre, cf.dst)
     /\ Stat(fs', cf.dst) = Stat(cf.pre, cf.dst)

C15_TransferFailureCleansUp == [][C15_CleanupStep]_vars

C15_TransferFailed ==
  \* copy_file has raised out of the transfer, over a destination that existed
  /\ pc = "cf_ret" /\ cf.res = "raised" /\ cf.exc = "OSError"
  /\ cf.tmp # <<>> /\ cf.how = "sparse"
  /\ LStat(cf.pre, cf.dst).kind = "file"
  /\ LStat(fs, cf.tmp).kind = "none"

(***************************************************************************)
(* C16. Wherever the run decides whether to skip a copy, should_skip_copy  *)
(* equals the ordered decision table: no entry at the destination -> no    *)
(* skip; else no_clobber -> skip; else update -> skip iff the source's     *)
(* mtime is not later than the destination's, no skip when either mtime    *)
(* cannot be read; else no skip.  An entry that exists at the destination  *)
(* (a dangling symlink included) is never taken for absent.                *)
(***************************************************************************)
SkipTable(f, src, dst, no_clobber, update_only) ==
  IF LStat(f, dst).kind = "none" THEN FALSE
  ELSE IF no_clobber THEN TRUE
  ELSE IF update_only
       THEN IF Stat(f, src).kind # "none" /\ Stat(f, dst).kind # "none"
            THEN Stat(f, src).mtime <= Stat(f, dst).mtime
            ELSE FALSE
  ELSE FALSE

C16_SkipDecisionTable ==
  /\ (/\ pc = "ct_enter" /\ Exists(fs, ct.src_root)
      /\ (IsFile(fs, ct.src_root) \/ IsLink(fs, ct.src_root)))
     => LET d == SingleDst(fs, ct.src_root, ct.dst_root)
        IN should_skip_copy(fs, ct.src_root, d, args.no_clobber, args.update)
             = SkipTable(fs, ct.src_root, d, args.no_clobber, args.update)
  /\ (pc = "walk_files" /\ ct.files # <<>>)
     => LET s == Join(ct.root, Head(ct.files))
            d == Join(ct.dst_dir, Head(ct.files))
        IN should_skip_copy(fs, s, d, args.no_clobber, args.update)
             = SkipTable(fs, s, d, args.no_clobber, args.update)

(***************************************************************************)
(* C17. For a root that is a file or symlink the destination is resolved   *)
(* once: when a command-line run with source S and destination D calls     *)
(* copy_file for S, the path it writes is D/basename(S) if D was an        *)
(* existing directory and D itself otherwise, whatever is at               *)
(* D/basename(S).                                                          *)
(***************************************************************************)
C17_SingleDstResolvedOnce ==
  (pc = "cf_enter" /\ cf.caller = "root")
  => cf.dst = IF Stat(ct.pre, args.dst).kind = "dir"
              THEN args.dst \o <<cf.src[Len(cf.src)]>>
              ELSE args.dst

(***************************************************************************)
(* C18. When a recursive walk with dereference off returns, every symlink  *)
(* to a directory found among the subdirectories of the source tree has    *)
(* not been descended into, and its mirrored path is a symlink with the    *)
(* same target, whatever entry (file, directory or symlink) was at that    *)
(* path before.                                                            *)
(***************************************************************************)
SymlinkedDirs(f, top) ==
  \* the symlinks to directories in the tree under top
  {p \in DOMAIN f : /\ IsPrefix(top, p) /\ p # top
                    /\ f[p].kind = "link" /\ IsDir(f, p)}

C18_SymlinkedDirsReplicated ==
  (WalkReturned /\ ~args.dereference)
  => \A p \in SymlinkedDirs(ct.pre, ct.src_root) :
       LET d == Mirror(ct.src_root, ct.dst_root, p)
       IN /\ LStat(fs, d).kind = "link"
          /\ LStat(fs, d).target = ct.pre[p].target
          /\ \A q \in DOMAIN fs \ DOMAIN ct.pre : ~(IsPrefix(d, q) /\ q # d)

(***************************************************************************)
(* C19. When a copy_file call returns normally, in any mode, the source    *)
(* path holds what it held at the call: the same entry and, read through   *)
(* it, the same content, also when source and destination are one path.    *)
(***************************************************************************)
C19_SourceUnchanged ==
  (pc = "cf_ret" /\ cf.res = "ok")
  => Held(fs, cf.src) = Held(cf.pre, cf.src)

(***************************************************************************)
(* C20. Once copy_tree starts a recursive walk of a directory, the walk    *)
(* eventually ends: copy_tree returns or raises, or the process exits.     *)
(* This holds too when dst_root lies inside src_root and when, with        *)
(* dereference set, a symlinked directory points to one of its ancestors.  *)
(***************************************************************************)
WalkStarted ==
  pc = "ct_enter" /\ args.recursive /\ IsDir(fs, ct.src_root)

WalkEnded == pc = "ct_ret" \/ ~Running

C20_WalkTerminates == WalkStarted ~> WalkEnded

C20_LoopWalkEnded ==
  \* a walk has ended that followed a symlink to an ancestor and whose
  \* destination lies inside the tree walked
  /\ pc = "ct_ret" /\ args.recursive /\ args.dereference
  /\ IsDir(ct.pre, ct.src_root)
  /\ IsPrefix(ct.src_root, ct.dst_root) /\ ct.dst_root # ct.src_root
  /\ \E p \in SymlinkedDirs(ct.pre, ct.src_root) : IsPrefix(ct.pre[p].target, p)
  /\ \E q \in DOMAIN fs \ DOMAIN ct.pre : IsPrefix(ct.src_root, q)

====
